---- MODULE Spec2Model ----
(***************************************************************************)
(* Task_Manager: the scheduling and execution engine.                      *)
(*                                                                         *)
(*   SchedulerService  (src/unnamed/part_002)  concurrency gate + ticks    *)
(*   TaskService       (src/backend/core/services/webhookServices.js)      *)
(*   TaskRepository    (src/unnamed/part_000)  the task_queue table        *)
(*                                                                         *)
(* The program runs on the single-threaded Node.js event loop.  Every      *)
(* action below is one run-to-suspension segment of an async function: it  *)
(* starts when the awaited operation settles (the store operation takes    *)
(* effect in that same step) and runs the synchronous code up to the next  *)
(* await.  A call chain (one tick, one manualExecuteTask call, one         *)
(* controller request) is a thread; th[x].pc is the await it is parked on. *)
(* Time is counted in minutes.                                             *)
(***************************************************************************)
EXTENDS Integers, Sequences, FiniteSets, TLC

\* ------------------------------------------------------------------ bounds
MaxTime     == 1      \* the clock runs from 0 to MaxTime
MaxLaunches == 2      \* cron firings + manualExecuteTask calls
MaxRequests == 3      \* POST /run-job requests
MaxDbFaults == 1      \* store operations that fail
MaxRestarts == 1      \* times the process is stopped and started again

\* --------------------------------------------------------------- constants
\* A nullable column or a JS value is a tagged record: null, Invalid Date and
\* NaN are values of their own, distinct from every instant and number.
\* An instant is counted in minutes from the instant 0 of the model and held
\* as far * Base + v, with far and v of the same sign and |v| < Base, and
\* s seconds behind these minutes.
Base        == 100000000
NULL        == [ is |-> "null", far |-> 0, v |-> 0, s |-> 0 ]          \* SQL NULL / JS null
InvalidDate == [ is |-> "Invalid Date", far |-> 0, v |-> 0, s |-> 0 ]  \* new Date(NaN)
Date(t)     == [ is |-> "Date", far |-> 0, v |-> t, s |-> 0 ]          \* the instant t
Number(n)   == [ is |-> "number", v |-> n ]         \* a stored number
IsDate(d)   == d.is = "Date"
NoReason    == "null"             \* failure_reason IS NULL
NoPattern   == << >>              \* schedule_pattern IS NULL
Ghost       == "ghost"            \* a task id that is not in task_queue
NoTask      == "none"

\* ----------------------------------------------------------------- strings
\* A JS string is the sequence of its characters.
Digits == <<"0", "1", "2", "3", "4", "5", "6", "7", "8", "9">>
IsDigit(c) == \E i \in 1..10 : Digits[i] = c
DigitVal(c) == (CHOOSE i \in 1..10 : Digits[i] = c) - 1
HexLower == <<"a", "b", "c", "d", "e", "f">>
HexUpper == <<"A", "B", "C", "D", "E", "F">>
\* the digits parseInt reads in the given radix (10 or 16)
IsRadixDigit(c, radix) ==
    \/ IsDigit(c)
    \/ radix = 16 /\ \E i \in 1..6 : HexLower[i] = c \/ HexUpper[i] = c
RadixDigitVal(c, radix) ==
    IF IsDigit(c) THEN DigitVal(c)
    ELSE 9 + (CHOOSE i \in 1..6 : HexLower[i] = c \/ HexUpper[i] = c)
\* StrWhiteSpaceChar (WhiteSpace and LineTerminator of ECMAScript): what
\* parseInt and trim strip.  A character that has no escape here is written
\* as its code point, one element of the sequence.
WhiteSpace ==
    { " ", "\t", "\n", "\r", "\f", "U+000B", "U+00A0", "U+1680",
      "U+2000", "U+2001", "U+2002", "U+2003", "U+2004", "U+2005", "U+2006",
      "U+2007", "U+2008", "U+2009", "U+200A", "U+2028", "U+2029", "U+202F",
      "U+205F", "U+3000", "U+FEFF" }

\* A JS number read by parseInt: (far * Base + v) * radix^e, or NaN.  The
\* digits are read exactly up to 10^15; e counts the digits that follow.
NaN == [ is |-> "NaN", far |-> 0, v |-> 0, e |-> 0, radix |-> 10 ]

\* String.prototype.startsWith
StartsWith(s, prefix) ==
    /\ Len(s) >= Len(prefix)
    /\ SubSeq(s, 1, Len(prefix)) = prefix

\* cronPattern.split(' ')[0]
FirstField(s) ==
    IF \E i \in 1..Len(s) : s[i] = " "
    THEN SubSeq(s, 1, (CHOOSE i \in 1..Len(s) :
                          s[i] = " " /\ \A j \in 1..(i-1) : s[j] # " ") - 1)
    ELSE s

\* .replace('*/', '') : removes the first occurrence
ReplaceStarSlash(s) ==
    IF \E i \in 1..(Len(s)-1) : s[i] = "*" /\ s[i+1] = "/"
    THEN LET i == CHOOSE i \in 1..(Len(s)-1) :
                     /\ s[i] = "*" /\ s[i+1] = "/"
                     /\ \A j \in 1..(i-1) : ~(s[j] = "*" /\ s[j+1] = "/")
         IN SubSeq(s, 1, i-1) \o SubSeq(s, i+2, Len(s))
    ELSE s

\* one more digit d behind the digits read so far, acc = <<far, v, e>>
AddDigit(acc, d, radix) ==
    IF acc[3] = 0 /\ acc[1] < Base \div radix
    THEN << acc[1] * radix + (acc[2] * radix + d) \div Base,
            (acc[2] * radix + d) % Base, 0 >>
    ELSE << acc[1], acc[2], acc[3] + 1 >>

\* the leading digits of s in the radix, read from position i: <<far, v, e>>
RECURSIVE DigitsValue(_, _, _, _)
DigitsValue(s, i, radix, acc) ==
    IF i > Len(s) \/ ~IsRadixDigit(s[i], radix) THEN acc
    ELSE CHOOSE read \in
             { DigitsValue(s, i + 1, radix, next) :
                 next \in { AddDigit(acc, RadixDigitVal(s[i], radix), radix) } } : TRUE

\* String.prototype.trim and the whitespace parseInt skips
RECURSIVE TrimStart(_)
TrimStart(s) == IF s # << >> /\ Head(s) \in WhiteSpace THEN TrimStart(Tail(s)) ELSE s
RECURSIVE TrimEnd(_)
TrimEnd(s) ==
    IF s # << >> /\ s[Len(s)] \in WhiteSpace THEN TrimEnd(SubSeq(s, 1, Len(s) - 1)) ELSE s
Trim(s) == TrimEnd(TrimStart(s))

\* parseInt(s) with no radix: leading whitespace is skipped, then an optional
\* sign, then "0x" or "0X" selects radix 16, then the leading digits of the
\* radix are read; NaN when there is none
ParseInt(s) ==
    LET str    == TrimStart(s)
        neg    == str # << >> /\ Head(str) = "-"
        signed == IF str # << >> /\ Head(str) \in {"-", "+"} THEN Tail(str) ELSE str
        hex    == Len(signed) >= 2 /\ signed[1] = "0" /\ signed[2] \in {"x", "X"}
        radix  == IF hex THEN 16 ELSE 10
        body   == IF hex THEN SubSeq(signed, 3, Len(signed)) ELSE signed
        read   == DigitsValue(body, 1, radix, <<0, 0, 0>>)
    IN IF body = << >> \/ ~IsRadixDigit(Head(body), radix) THEN NaN
       ELSE [ is |-> "number",
              far |-> IF neg THEN 0 - read[1] ELSE read[1],
              v   |-> IF neg THEN 0 - read[2] ELSE read[2],
              e |-> read[3], radix |-> radix ]

RestOfPattern == <<" ", "*", " ", "*", " ", "*", " ", "*">>
EveryMinute   == <<"*", "/", "1">> \o RestOfPattern      \* "*/1 * * * *"

\* "*/<digits> * * * *"
Every(digits) == <<"*", "/">> \o digits \o RestOfPattern

\* TaskService._isValidCronPattern: pattern.trim().split(' ').length === 5
_isValidCronPattern(pattern) ==
    Cardinality({ i \in 1..Len(Trim(pattern)) : Trim(pattern)[i] = " " }) + 1 = 5

\* -------------------------------------------------------------------- Date
\* The process runs in the zone America/New_York.  A reading of the local
\* wall clock is counted like an instant: in minutes from what a clock kept
\* on standard time (EST) shows at instant 0, so that in winter a reading and
\* its instant are the same number and in summer the reading is DstShift
\* minutes ahead.
StdOffset == 300      \* EST is 300 minutes behind UTC
DstShift  == 60
\* the instant 0 of the model, in minutes since 1970-01-01T00:00Z
\* (2026-11-01T05:44Z, 16 minutes before summer time ends)
Epoch     == 29891864
\* a Date holds at most 8.64e15 ms = 1440 * Base minutes either side of 1970
MaxDateFar == 1440
Abs(n) == IF n < 0 THEN 0 - n ELSE n
FloorDiv(a, b) == IF a >= 0 THEN a \div b ELSE 0 - ((b - 1 - a) \div b)
Mod(a, b) == a - b * FloorDiv(a, b)

\* the pair <<far, v>> of the number far * Base + raw, for |raw| < 20 * Base
Norm(far, raw) ==
    CHOOSE pair \in
        { IF p[1] > 0 /\ p[2] < 0 THEN << p[1] - 1, p[2] + Base >>
          ELSE IF p[1] < 0 /\ p[2] > 0 THEN << p[1] + 1, p[2] - Base >>
          ELSE p :
            p \in { << far + q, raw - q * Base >> :
                q \in { IF raw < 0 THEN 0 - ((0 - raw) \div Base)
                        ELSE raw \div Base } } } : TRUE

\* the number of days from 1970-01-01 to the day d of month m of year y
DaysFromCivil(y, m, d) ==
    CHOOSE days \in
        { e[1] * 146097 + e[2] * 365 + e[2] \div 4 - e[2] \div 100
            + (153 * (IF m > 2 THEN m - 3 ELSE m + 9) + 2) \div 5 + d - 1 - 719468 :
            e \in { << FloorDiv(yy, 400), Mod(yy, 400) >> :
                yy \in { IF m <= 2 THEN y - 1 ELSE y } } } : TRUE
\* the year of the day that lies `day` days from 1970-01-01
YearOfDay(day) ==
    CHOOSE year \in
        { c[1] * 400 + c[3]
            + (IF c[2] - (365 * c[3] + c[3] \div 4 - c[3] \div 100) >= 306
               THEN 1 ELSE 0) :
            c \in { << e[1], e[2],
                       (e[2] - e[2] \div 1460 + e[2] \div 36524
                             - e[2] \div 146096) \div 365 >> :
                e \in { << FloorDiv(z, 146097), Mod(z, 146097) >> :
                    z \in { day + 719468 } } } } : TRUE
\* the day of the week of a day, 0 for Sunday
WeekDay(day) == Mod(day + 4, 7)
SundayOnOrAfter(day) ==
    CHOOSE sunday \in { day + Mod(7 - wd, 7) : wd \in { WeekDay(day) } } : TRUE
\* the last Sunday of month m (m < 12) of year y
LastSunday(y, m) ==
    CHOOSE sunday \in
        { last - WeekDay(last) : last \in { DaysFromCivil(y, m + 1, 1) - 1 } } : TRUE

\* the day and the minute of the day that a reading shows: <<day, minute>>
Clock(w) ==
    CHOOSE c \in
        { << a[1] * 69444 + FloorDiv(a[1] * 640 + a[2], 1440),
             Mod(a[1] * 640 + a[2], 1440) >> :
            a \in { Norm(w[1], w[2] + Epoch - StdOffset) } } : TRUE

\* Summer time of year y in New York: <<from, to>>, in force from 02:00 on the
\* standard clock of day `from` until 01:00 on the standard clock of day `to`
\* (a year that is summer time from its start has the day before it as
\* `from`, one that is summer time to its end the day after it as `to`);
\* <<1, 0>> for a year that has none.
Summer(y) ==
    IF y >= 2007 THEN << SundayOnOrAfter(DaysFromCivil(y, 3, 8)),
                         SundayOnOrAfter(DaysFromCivil(y, 11, 1)) >>
    ELSE IF y >= 1987 THEN << SundayOnOrAfter(DaysFromCivil(y, 4, 1)), LastSunday(y, 10) >>
    ELSE IF y >= 1976 THEN << LastSunday(y, 4), LastSunday(y, 10) >>
    ELSE IF y = 1975 THEN << LastSunday(y, 2), LastSunday(y, 10) >>
    ELSE IF y = 1974 THEN << DaysFromCivil(y, 1, 6), LastSunday(y, 10) >>
    ELSE IF y >= 1955 THEN << LastSunday(y, 4), LastSunday(y, 10) >>
    ELSE IF y >= 1946 THEN << LastSunday(y, 4), LastSunday(y, 9) >>
    ELSE IF y = 1945 THEN << DaysFromCivil(y, 1, 1) - 1, DaysFromCivil(y, 9, 30) >>
    ELSE IF y >= 1943 THEN << DaysFromCivil(y, 1, 1) - 1, DaysFromCivil(y + 1, 1, 1) >>
    ELSE IF y = 1942 THEN << DaysFromCivil(y, 2, 9), DaysFromCivil(y + 1, 1, 1) >>
    ELSE IF y >= 1921 THEN << LastSunday(y, 4), LastSunday(y, 9) >>
    ELSE IF y >= 1918 THEN << LastSunday(y, 3), LastSunday(y, 10) >>
    ELSE << 1, 0 >>
\* summer time is in force at the instant whose standard clock shows c
SummerTime(c) ==
    \E s \in { Summer(YearOfDay(c[1])) } :
        /\ c[1] > s[1] \/ (c[1] = s[1] /\ c[2] >= 120)
        /\ c[1] < s[2] \/ (c[1] = s[2] /\ c[2] < 60)
\* Until 1883-11-18 12:00 standard time the zone keeps local mean time,
\* 3 minutes 58 seconds ahead of standard time: the readings up to 12:03
\* of that day are readings of local mean time.
LocalMean(c) ==
    \E d \in { DaysFromCivil(1883, 11, 18) } :
        c[1] < d \/ (c[1] = d /\ c[2] < 724)

\* LocalTime(t): the local wall clock at instant t of the model's clock
LocalTime(t) ==
    IF SummerTime(Clock(<< 0, t >>)) THEN t + DstShift ELSE t
\* UTC(local): the instant of a local wall clock reading, <<far, v, s>> with
\* s seconds behind the minutes.  A reading that occurs twice is taken as its
\* first occurrence, one that the clock skips by the offset in force before
\* the skip.  A reading beyond what a Date holds is not converted.
UTC(local) ==
    IF Abs(local[1]) > MaxDateFar + 1 THEN << local[1], local[2], 0 >>
    ELSE CHOOSE at \in
        { IF LocalMean(c) THEN << mean[1], mean[2], 2 >>
          ELSE IF SummerTime(Clock(summer)) THEN << summer[1], summer[2], 0 >>
          ELSE << local[1], local[2], 0 >> :
            c \in { Clock(local) },
            mean \in { Norm(local[1], local[2] - 4) },
            summer \in { Norm(local[1], local[2] - DstShift) } } : TRUE
\* TimeClip: the Date of an instant, Invalid Date out of the range of Date
TimeClip(at) ==
    CHOOSE date \in
        { IF \/ Abs(since1970[1]) < MaxDateFar
             \/ Abs(since1970[1]) = MaxDateFar /\ since1970[2] = 0
          THEN [ is |-> "Date", far |-> at[1], v |-> at[2], s |-> at[3] ]
          ELSE InvalidDate :
            since1970 \in { Norm(at[1], at[2] + Epoch) } } : TRUE

\* d <= t and d > t, for a Date d and an instant t of the clock
NotAfter(d, t) == d.far < 0 \/ (d.far = 0 /\ d.v <= t)
After(d, t)    == ~NotAfter(d, t)

\* Date.prototype.setMinutes(getMinutes() + n) on the Date of instant t: the
\* local wall clock is moved by n minutes and read back as an instant.  NaN
\* or an instant out of the range of Date gives Invalid Date (a number of
\* more than 10^15 is always out of range).  Each intermediate result is
\* bound as a value before it is read.
setMinutes(t, n) ==
    IF n.is = "NaN" \/ n.e > 0 THEN InvalidDate
    ELSE CHOOSE date \in
             { TimeClip(at) : at \in { UTC(local) :
                 local \in { Norm(n.far, n.v + LocalTime(t)) } } } : TRUE

\* Date.prototype.setHours(getHours() + 1)
setHours(t) ==
    CHOOSE date \in
        { TimeClip(at) : at \in { UTC(local) :
            local \in { Norm(0, LocalTime(t) + 60) } } } : TRUE

\* TaskService._calculateNextExecution, with `now` the instant of the call:
\* parseInt(cronPattern.split(' ')[0].replace('*/', '')) minutes are added.
\* Each call's result is bound as a value before the next call reads it.
_calculateNextExecution(cronPattern, t) ==
    IF StartsWith(cronPattern, <<"*", "/">>)
    THEN CHOOSE next \in
             { setMinutes(t, minutes) :
                 minutes \in { ParseInt(number) :
                     number \in { ReplaceStarSlash(field) :
                         field \in { FirstField(cronPattern) } } } } : TRUE
    ELSE setHours(t)

\* ------------------------------------------------------------------- state
Tasks   == {"t1", "t2", "t3"}
Ticks   == {"k1", "k2"}   \* cron cycles that may be under way at once
TickOrder == <<"k1", "k2">>
Manuals == {"m1", "m2"}     \* manualExecuteTask calls that may be under way at once
ManualOrder == <<"m1", "m2">>
Apis    == {"a1", "a2"}     \* POST /run-job requests that may be under way at once
ApiOrder == <<"a1", "a2">>
Posts   == {"p1"}
Dels    == {"d1"}
ApiTargets    == {"t1", "t3", Ghost}   \* ids the controller is asked to run
ManualTargets == {"t3", Ghost}         \* ids manualExecuteTask is asked to run
DeleteTargets == {"t1"}                \* ids DELETE /tasks/:id is asked to remove
Threads == Ticks \cup Manuals \cup Apis \cup Posts \cup Dels

VARIABLES
    store,             \* task_queue: task id -> row
    history,           \* execution_history: task id -> number of entries per status
    maxConcurrentTasks,\* SchedulerService.maxConcurrentTasks
    schedulerJob,      \* SchedulerService.schedulerJob: the cron job, if any
    isRunning,         \* SchedulerService.isRunning
    activeTasksCount,  \* SchedulerService.activeTasksCount
    taskQueue,         \* SchedulerService.taskQueue
    now,               \* the wall clock
    th,                \* the call chains
    launches,          \* operations begun so far
    dbFaults,          \* store operations that have failed so far
    arrivals,          \* ghost: number of pushes onto taskQueue so far
    lastShifted,       \* ghost: arrival number of the last entry taken from taskQueue
    outcome,           \* ghost: what this step handed to the caller of an operation
    restarts,          \* times the process has been stopped and started again
    lostQueue,         \* ghost: the ids that were in taskQueue when the process stopped
    interrupted        \* ghost: the ids stored as processing when the process stopped

vars == <<store, history, maxConcurrentTasks, schedulerJob, isRunning, activeTasksCount, taskQueue, now, th, launches,
          dbFaults, arrivals, lastShifted, outcome, restarts, lostQueue, interrupted>>

NoOutcome == [who |-> "none", task |-> "none", what |-> "none"]
Silent    == outcome' = NoOutcome
Answer(x, taskId, what) == outcome' = [who |-> x, task |-> taskId, what |-> what]

gate  == <<activeTasksCount, taskQueue, arrivals, lastShifted>>
cron  == <<schedulerJob, isRunning>>
proc  == <<restarts, lostQueue, interrupted>>

\* -------------------------------------------------------------- repository
\* TaskService.createTask + TaskRepository.createTask at instant t: the row
\* of a new task (execution_state and the counters take the column defaults)
createTask(schedulePattern, t) ==
    [ execution_state       |-> "queued",
      execution_attempts    |-> 0,
      schedule_pattern      |-> schedulePattern,
      is_recurring          |-> schedulePattern # NoPattern,
      next_execution_at     |-> IF schedulePattern # NoPattern
                                THEN _calculateNextExecution(schedulePattern, t)
                                ELSE NULL,
      failure_reason        |-> NoReason,
      execution_duration_ms |-> NULL,
      last_executed_at      |-> NULL ]

\* TaskRepository.updateTaskState: the UPDATE it builds.  additionalData is a
\* record that has only the keys the caller passed; a key the method does not
\* look at (next_execution_at) changes nothing.
updateTaskState(row, newState, additionalData) ==
    LET has(k) == k \in DOMAIN additionalData
    IN [ row EXCEPT
           !.execution_state       = newState,
           !.execution_attempts    = IF has("execution_attempts")
                                     THEN additionalData.execution_attempts ELSE @,
           !.execution_duration_ms = IF has("execution_duration_ms")
                                     THEN additionalData.execution_duration_ms ELSE @,
           !.failure_reason        = IF has("failure_reason")
                                        /\ additionalData.failure_reason # ""
                                     THEN additionalData.failure_reason ELSE @,
           !.last_executed_at      = IF has("last_executed_at")
                                     THEN additionalData.last_executed_at ELSE @ ]

\* TaskRepository.findScheduledTasksReady: the ids of the rows it selects
findScheduledTasksReady ==
    { t \in DOMAIN store :
        /\ store[t].is_recurring
        /\ store[t].next_execution_at # NULL
        /\ NotAfter(store[t].next_execution_at, now)
        /\ store[t].execution_state \in {"queued", "completed"} }

\* TaskRepository.logExecution: one more row in execution_history
logExecution(h, taskId, status) ==
    [h EXCEPT ![taskId][status] = @ + 1]

\* outcomes of one statement sent to the store: it works or it fails
ReadOutcomes  == IF dbFaults < MaxDbFaults THEN {"ok", "fail"} ELSE {"ok"}
Fault(o) == dbFaults' = IF o = "fail" THEN dbFaults + 1 ELSE dbFaults
\* UPDATE task_queue SET ... WHERE task_id = taskId: the table afterwards, the
\* row of the task being `row`; no row is changed when the task is gone
Written(taskId, row) ==
    IF taskId \in DOMAIN store THEN [ store EXCEPT ![taskId] = row ] ELSE store
\* TaskRepository.findTaskById: the row, or null when there is none
findTaskById(taskId) ==
    IF taskId \in DOMAIN store THEN store[taskId] ELSE NULL
\* outcomes of the INSERT into execution_history: the schema is not in src,
\* so an entry for a task that is gone is stored, or refused as a reference
\* to no row (logExecution swallows the error either way)
LogOutcomes(taskId) ==
    ReadOutcomes \cup (IF taskId \in DOMAIN store THEN {} ELSE {"refused"})
\* the message of a DatabaseOperationError
DbError == "Database operation failed"

\* the schedulePattern of a POST /tasks body: "*/5 * * * *", "*/15 * * * *",
\* "*/0 * * * *", "0 * * * *", "*/x * * * *", "*/5", "*/<U+00A0>5 * * * *",
\* "*/1234567891 * * * *", "*/143990000000 * * * *", or none
SchedulePatterns ==
    { Every(<<"5">>), Every(<<"1", "5">>), Every(<<"0">>),
      <<"0">> \o RestOfPattern, Every(<<"x">>), <<"*", "/", "5">>,
      Every(<<"U+00A0", "5">>),
      Every(<<"1", "2", "3", "4", "5", "6", "7", "8", "9", "1">>),
      Every(<<"1", "4", "3", "9", "9", "0", "0", "0", "0", "0", "0", "0">>),
      NoPattern }

\* ----------------------------------------------------------------- threads
\* x is the first chain of `order` that is free: a new call takes it
FirstFree(order, x, chains) ==
    /\ chains[x].pc = "idle"
    /\ \A i, j \in 1..Len(order) :
          (order[j] = x /\ i < j) => chains[order[i]].pc # "idle"

Idle == [ pc |-> "idle", task |-> NoTask, list |-> << >>, attempts |-> 0,
          recurring |-> FALSE, pattern |-> NoPattern, start |-> 0, end |-> 0,
          cause |-> "", result |-> "none", thrown |-> "none",
          marked |-> FALSE, nextExecution |-> NULL,
          taskData |-> NULL, completedTask |-> NULL ]

\* POST /tasks (TaskController.createTask, TaskService.createTask lines 20-36)
\* for a body with a valid name, payload and priority; `id` is the fresh
\* uuid.  The payload is validated and taskData is built at the instant of
\* the call; the chain then waits for the INSERT.
PostTask(p, id, schedulePattern) ==
    /\ th[p].pc = "idle"
    /\ id \notin DOMAIN store
    /\ IF schedulePattern # NoPattern /\ ~_isValidCronPattern(schedulePattern)
       THEN /\ Answer(p, id, "ValidationError")
            /\ UNCHANGED th
       ELSE /\ th' = [ th EXCEPT ![p] =
                         [ Idle EXCEPT !.pc = "insert", !.task = id, !.start = now,
                                       !.taskData = createTask(schedulePattern, now) ] ]
            /\ Silent
    /\ UNCHANGED <<store, dbFaults, history, maxConcurrentTasks, proc, cron, gate,
                   now, launches>>

\* TaskRepository.createTask lines 22-32: the INSERT settles.  A Date that is
\* invalid is either refused by the store or stored as NULL.
PostInsert(p) ==
    /\ th[p].pc = "insert"
    /\ LET row == th[p].taskData
           id  == th[p].task
       IN \E o \in ReadOutcomes \cup
                   (IF row.next_execution_at = InvalidDate
                    THEN {"refused"} ELSE {}) :
            /\ dbFaults' = IF o = "fail" THEN dbFaults + 1 ELSE dbFaults
            /\ IF o = "ok"
               THEN /\ store' = [ t \in DOMAIN store \cup {id} |->
                                    IF t # id THEN store[t]
                                    ELSE IF row.next_execution_at = InvalidDate
                                    THEN [ row EXCEPT !.next_execution_at = NULL ]
                                    ELSE row ]
                    /\ th' = [ th EXCEPT ![p].pc = "created" ]
                    /\ Silent
               ELSE /\ UNCHANGED store
                    /\ th' = [ th EXCEPT ![p] = Idle ]
                    /\ Answer(p, id, "DatabaseOperationError")
    /\ UNCHANGED <<history, maxConcurrentTasks, proc, cron, gate, now, launches>>

\* TaskRepository.createTask line 32: findTaskById settles and the controller
\* answers 201, or the SELECT fails and the row stays
PostSelect(p) ==
    /\ th[p].pc = "created"
    /\ \E o \in ReadOutcomes :
         /\ Fault(o)
         /\ Answer(p, th[p].task, IF o = "ok" THEN "created"
                                  ELSE "DatabaseOperationError")
    /\ th' = [ th EXCEPT ![p] = Idle ]
    /\ UNCHANGED <<store, history, maxConcurrentTasks, proc, cron, gate, now, launches>>

\* DELETE /tasks/:id (TaskController.deleteTask, TaskService.deleteTask line
\* 154): the service awaits findTaskById
DeleteCall(d, taskId) ==
    /\ th[d].pc = "idle"
    /\ th' = [ th EXCEPT ![d] = [ Idle EXCEPT !.pc = "delfind", !.task = taskId ] ]
    /\ UNCHANGED <<store, dbFaults, history, maxConcurrentTasks, proc, cron, gate,
                   now, launches>>
    /\ Silent

\* TaskService.deleteTask lines 154-160: findTaskById settles; for no row
\* TaskNotFoundError is thrown, else the DELETE is awaited
DeleteFind(d) ==
    /\ th[d].pc = "delfind"
    /\ \E o \in ReadOutcomes :
        /\ Fault(o)
        /\ IF o = "ok" /\ th[d].task \in DOMAIN store
           THEN /\ th' = [ th EXCEPT ![d].pc = "remove" ]
                /\ Silent
           ELSE /\ th' = [ th EXCEPT ![d] = Idle ]
                /\ Answer(d, th[d].task, IF o = "fail" THEN "DatabaseOperationError"
                                         ELSE "TaskNotFoundError")
    /\ UNCHANGED <<store, history, maxConcurrentTasks, proc, cron, gate, now, launches>>

\* execution_history after the row of taskId has left task_queue: the schema
\* is not in src, so the entries of the task stay, or go with the row
HistoryAfterDelete(taskId) ==
    { history, [ history EXCEPT ![taskId] = [success |-> 0, failure |-> 0] ] }

\* TaskRepository.deleteTask (lines 217-225), TaskService.deleteTask lines
\* 160-165: the DELETE settles; the number of rows it removed is not looked at
DeleteRow(d) ==
    /\ th[d].pc = "remove"
    /\ \E o \in ReadOutcomes :
        /\ Fault(o)
        /\ IF o = "ok"
           THEN /\ store' = [ t \in DOMAIN store \ {th[d].task} |-> store[t] ]
                /\ history' \in HistoryAfterDelete(th[d].task)
                /\ Answer(d, th[d].task, "deleted")
           ELSE /\ UNCHANGED <<store, history>>
                /\ Answer(d, th[d].task, "DatabaseOperationError")
    /\ th' = [ th EXCEPT ![d] = Idle ]
    /\ UNCHANGED <<maxConcurrentTasks, proc, cron, gate, now, launches>>

\* SchedulerService constructor line 15: parseInt(MAX_CONCURRENT_TASKS) || 5,
\* with `parsed` the number parseInt gives; 0 and NaN alike give 5
constructor(parsed) == IF parsed = 0 THEN 5 ELSE parsed

\* The tasks were created at instant 0, those of `recurring` with the pattern
\* "*/1 * * * *"; the process is observed from instant t0 with
\* MAX_CONCURRENT_TASKS set to `limit`, start() having been called or not.
InitAt(t0, limit, recurring, started) ==
    /\ store = [ t \in Tasks |->
                   IF t \in recurring THEN createTask(EveryMinute, 0)
                   ELSE createTask(NoPattern, 0) ]
    /\ history = [ t \in Tasks |-> [success |-> 0, failure |-> 0] ]
    /\ maxConcurrentTasks = constructor(limit)
    /\ schedulerJob = IF started THEN "scheduled" ELSE "null"
    /\ isRunning = started
    /\ activeTasksCount = 0
    /\ taskQueue = << >>
    /\ now = t0
    /\ th = [ x \in Threads |-> Idle ]
    /\ launches = 0
    /\ dbFaults = 0
    /\ arrivals = 0
    /\ lastShifted = 0
    /\ outcome = NoOutcome
    /\ restarts = 0
    /\ lostQueue = {}
    /\ interrupted = {}

\* the scheduler is observed from the minute in which t1 and t2 fall due
Init == InitAt(1, 1, {"t1", "t2"}, TRUE)

\* the cron job on an idle gate: two due tasks, two slots
InitTick == InitAt(1, 2, {"t1", "t2"}, TRUE)

\* the controller is observed in the minute in which t1 and t2 fall due; the
\* scheduler has not been started
InitExec == InitAt(1, 1, {"t1", "t2"}, FALSE)

\* one task is due, there is one slot and the scheduler is started
InitOne == InitAt(1, 1, {"t1"}, TRUE)

\* The wall clock advances.
AdvanceClock ==
    /\ now < MaxTime
    /\ now' = now + 1
    /\ UNCHANGED <<store, history, maxConcurrentTasks, proc, cron, gate, th, launches, dbFaults>>
    /\ Silent

\* ------------------------------------------------- TaskService.executeTask
\* executeTask(taskId) is called: it runs to `await findTaskById` (line 82)
StartRun(rec, taskId) ==
    [ Idle EXCEPT !.pc = "find", !.task = taskId, !.list = rec.list,
                  !.thrown = rec.thrown ]

\* the run is over with this outcome (returned value or thrown error)
Settle(rec, result) ==
    [ Idle EXCEPT !.pc = "fin", !.task = rec.task, !.list = rec.list,
                  !.thrown = rec.thrown, !.result = result ]

\* the catch block is entered (line 128): endTime is taken, logExecution awaited
Catch(rec, message) ==
    [ rec EXCEPT !.pc = "catchlog", !.end = now, !.cause = message ]

\* (variant: no guard on execution_state = 'processing')
ExecFindUnguarded(x) ==
    /\ th[x].pc = "find"
    /\ \E o \in ReadOutcomes :
        /\ Fault(o)
        /\ th' = [ th EXCEPT ![x] =
                     IF o = "fail" THEN Settle(@, "DatabaseOperationError")
                     ELSE IF @.task \notin DOMAIN store
                          THEN Settle(@, "TaskNotFoundError")
                     ELSE LET task == store[th[x].task]
                          IN [ th[x] EXCEPT
                                 !.pc        = "mark",
                                 !.attempts  = task.execution_attempts,
                                 !.recurring = task.is_recurring
                                               /\ task.schedule_pattern # NoPattern,
                                 !.pattern   = task.schedule_pattern,
                                 !.start     = now ] ]
    /\ UNCHANGED <<store, history, maxConcurrentTasks, proc, cron, gate, now, launches>>
    /\ Silent

\* lines 82-100: findTaskById settles; guards; the processing write is issued
ExecFind(x) ==
    /\ th[x].pc = "find"
    /\ \E o \in ReadOutcomes :
        /\ Fault(o)
        /\ th' = [ th EXCEPT ![x] =
                     IF o = "fail" THEN Settle(@, "DatabaseOperationError")
                     ELSE IF @.task \notin DOMAIN store
                          THEN Settle(@, "TaskNotFoundError")
                     ELSE IF store[@.task].execution_state = "processing"
                          THEN Settle(@, "InvalidTaskStateError")
                     ELSE LET task == store[th[x].task]
                          IN [ th[x] EXCEPT
                                 !.pc        = "mark",
                                 !.attempts  = task.execution_attempts,
                                 !.recurring = task.is_recurring
                                               /\ task.schedule_pattern # NoPattern,
                                 !.pattern   = task.schedule_pattern,
                                 !.start     = now ] ]
    /\ UNCHANGED <<store, history, maxConcurrentTasks, proc, cron, gate, now, launches>>
    /\ Silent

\* the UPDATE of the processing write (lines 97-100)
MarkProcessing(x, row) ==
    updateTaskState(row, "processing",
        [ execution_attempts |-> th[x].attempts + 1,
          last_executed_at   |-> Date(th[x].start) ])

\* (variant: the work unit is started without awaiting the processing write)
ExecMarkNotAwaited(x) ==
    /\ th[x].pc = "mark"
    /\ \E o \in ReadOutcomes :
        /\ Fault(o)
        /\ store' = IF o = "fail" THEN store
                    ELSE Written(th[x].task, MarkProcessing(x, store[th[x].task]))
        /\ th' = [ th EXCEPT ![x] = [ @ EXCEPT !.pc = "work", !.marked = (o = "ok") ] ]
    /\ UNCHANGED <<history, maxConcurrentTasks, proc, cron, gate, now, launches>>
    /\ Silent

\* lines 97-100, updateTaskState lines 134-135: the UPDATE of the processing
\* write settles; updateTaskState goes on to await findTaskById
ExecMark(x) ==
    /\ th[x].pc = "mark"
    /\ \E o \in ReadOutcomes :
        /\ Fault(o)
        /\ store' = IF o = "fail" THEN store
                    ELSE Written(th[x].task, MarkProcessing(x, store[th[x].task]))
        /\ th' = [ th EXCEPT ![x] =
                     IF o = "ok" THEN [ @ EXCEPT !.pc = "markread", !.marked = TRUE ]
                     ELSE Catch(@, DbError) ]
    /\ UNCHANGED <<history, maxConcurrentTasks, proc, cron, gate, now, launches>>
    /\ Silent

\* updateTaskState line 136, lines 100-103: the SELECT after the processing
\* write settles; the work unit is started
ExecMarkRead(x) ==
    /\ th[x].pc = "markread"
    /\ \E o \in ReadOutcomes :
        /\ Fault(o)
        /\ th' = [ th EXCEPT ![x] =
                     IF o = "ok" THEN [ @ EXCEPT !.pc = "work" ]
                     ELSE Catch(@, DbError) ]
    /\ UNCHANGED <<store, history, maxConcurrentTasks, proc, cron, gate, now, launches>>
    /\ Silent

\* error.message of what a work unit may throw (an Error may carry no message)
WorkErrors == {"unit failed", ""}

\* lines 103-109: the work unit settles.  _simulateTaskExecution stands for
\* the task's actual work; an error it raises lands in the catch block.
ExecWork(x) ==
    /\ th[x].pc = "work"
    /\ \E error \in {"none"} \cup WorkErrors :
        th' = [ th EXCEPT ![x] =
                  IF error = "none" THEN [ @ EXCEPT !.pc = "complete", !.end = now ]
                  ELSE Catch(@, error) ]
    /\ UNCHANGED <<store, history, maxConcurrentTasks, proc, cron, gate, now, launches, dbFaults>>
    /\ Silent

\* the UPDATE of the completed write (lines 107-109)
MarkCompleted(x, row) ==
    updateTaskState(row, "completed",
        [ execution_duration_ms |-> Number(th[x].end - th[x].start) ])

\* lines 107-109, updateTaskState lines 134-135: the UPDATE of the completed
\* write settles; updateTaskState goes on to await findTaskById
ExecComplete(x) ==
    /\ th[x].pc = "complete"
    /\ \E o \in ReadOutcomes :
        /\ Fault(o)
        /\ store' = IF o = "fail" THEN store
                    ELSE Written(th[x].task, MarkCompleted(x, store[th[x].task]))
        /\ th' = [ th EXCEPT ![x] =
                     IF o = "ok"
                     THEN [ @ EXCEPT !.pc = "completeread", !.marked = FALSE ]
                     ELSE Catch(@, DbError) ]
    /\ UNCHANGED <<history, maxConcurrentTasks, proc, cron, gate, now, launches>>
    /\ Silent

\* updateTaskState line 136, lines 107-112: the SELECT after the completed
\* write settles, completedTask is the row as it is read now (null when the
\* task is gone); logExecution is awaited
ExecCompleteRead(x) ==
    /\ th[x].pc = "completeread"
    /\ \E o \in ReadOutcomes :
        /\ Fault(o)
        /\ th' = [ th EXCEPT ![x] =
                     IF o = "ok"
                     THEN [ @ EXCEPT !.pc = "logsuccess",
                                     !.completedTask = findTaskById(th[x].task) ]
                     ELSE Catch(@, DbError) ]
    /\ UNCHANGED <<store, history, maxConcurrentTasks, proc, cron, gate, now, launches>>
    /\ Silent

\* lines 112-115: the history insert settles (logExecution swallows a store
\* error); deliverWebhook is awaited
ExecLogSuccess(x) ==
    /\ th[x].pc = "logsuccess"
    /\ \E o \in LogOutcomes(th[x].task) :
        /\ Fault(o)
        /\ history' = IF o = "ok" THEN logExecution(history, th[x].task, "success")
                      ELSE history
    /\ th' = [ th EXCEPT ![x].pc = "webhook" ]
    /\ UNCHANGED <<store, maxConcurrentTasks, proc, cron, gate, now, launches>>
    /\ Silent

\* _scheduleNextExecution lines 239-242 is called: nextExecution is computed
\* from the pattern read by findTaskById (line 82) and the UPDATE is awaited
Reschedule(rec) ==
    [ rec EXCEPT !.pc = "requeue",
                 !.nextExecution = _calculateNextExecution(rec.pattern, now) ]

\* error.message of the TypeError _formatTaskResponse(null) throws
NullRead == "Cannot read properties of null (reading 'task_id')"

\* lines 122-126: the value returned is built from completedTask; for the
\* null read back after the task was deleted _formatTaskResponse throws, and
\* the throw is inside the try block
Return(rec) ==
    IF rec.completedTask = NULL THEN Catch(rec, NullRead) ELSE Settle(rec, "ok")

\* webhookService.deliverWebhook as the NotificationSink of the
\* specification: the response it reports
deliverWebhook == { [success |-> TRUE], [success |-> FALSE] }

\* error.message of what the call of line 115 throws.  The module required
\* at line 3 is the file of TaskService itself: the object it yields has no
\* deliverWebhook, and the call is a TypeError; a sink that rejects (a
\* WebhookDeliveryError of customErrors) takes the same path.
DeliveryErrors == { "webhookService.deliverWebhook is not a function" }

\* (variant: every task is rescheduled after the delivery)
ExecWebhookAlwaysRequeues(x) ==
    /\ th[x].pc = "webhook"
    /\ \/ \E response \in deliverWebhook :
            th' = [ th EXCEPT ![x] = Reschedule(@) ]
       \/ \E error \in DeliveryErrors :
            th' = [ th EXCEPT ![x] = Catch(@, error) ]
    /\ Silent
    /\ UNCHANGED <<store, history, maxConcurrentTasks, proc, cron, gate, now, launches, dbFaults>>

\* lines 115-126: the awaited delivery settles.  When it resolves, its
\* response is not looked at: a recurring task is rescheduled, any other run
\* returns.  When it rejects, or the call itself throws, the error lands in
\* the catch block of line 128: the await is inside the try block and has no
\* guard of its own.
ExecWebhook(x) ==
    /\ th[x].pc = "webhook"
    /\ \/ \E response \in deliverWebhook :
            th' = [ th EXCEPT ![x] =
                      IF @.recurring THEN Reschedule(@) ELSE Return(@) ]
       \/ \E error \in DeliveryErrors :
            th' = [ th EXCEPT ![x] = Catch(@, error) ]
    /\ Silent
    /\ UNCHANGED <<store, history, maxConcurrentTasks, proc, cron, gate, now, launches, dbFaults>>

\* _scheduleNextExecution (lines 239-245), updateTaskState lines 134-135: the
\* UPDATE settles and the state goes back to queued; updateTaskState was
\* handed nextExecution
ExecRequeue(x) ==
    /\ th[x].pc = "requeue"
    /\ \E o \in ReadOutcomes :
        /\ Fault(o)
        /\ store' = IF o = "fail" THEN store
                    ELSE Written(th[x].task,
                             updateTaskState(store[th[x].task], "queued",
                                 [ next_execution_at |-> th[x].nextExecution ]))
        /\ th' = [ th EXCEPT ![x] =
                     IF o = "ok" THEN [ @ EXCEPT !.pc = "requeueread" ]
                     ELSE Catch(@, DbError) ]
    /\ UNCHANGED <<history, maxConcurrentTasks, proc, cron, gate, now, launches>>
    /\ Silent

\* updateTaskState line 136, lines 119-126: the SELECT after the queued write
\* settles; executeTask returns
ExecRequeueRead(x) ==
    /\ th[x].pc = "requeueread"
    /\ \E o \in ReadOutcomes :
        /\ Fault(o)
        /\ th' = [ th EXCEPT ![x] =
                     IF o = "ok" THEN Return(@) ELSE Catch(@, DbError) ]
    /\ UNCHANGED <<store, history, maxConcurrentTasks, proc, cron, gate, now, launches>>
    /\ Silent

\* (variant: the catch block logs the failure and throws, the failed write
\* being left out)
ExecCatchLogRethrows(x) ==
    /\ th[x].pc = "catchlog"
    /\ \E o \in LogOutcomes(th[x].task) :
        /\ Fault(o)
        /\ history' = IF o = "ok" THEN logExecution(history, th[x].task, "failure")
                      ELSE history
    /\ th' = [ th EXCEPT ![x] = Settle(@, "TaskExecutionError") ]
    /\ UNCHANGED <<store, maxConcurrentTasks, proc, cron, gate, now, launches>>
    /\ Silent

\* lines 132-141: the failure entry is inserted; the failed write is issued
ExecCatchLog(x) ==
    /\ th[x].pc = "catchlog"
    /\ \E o \in LogOutcomes(th[x].task) :
        /\ Fault(o)
        /\ history' = IF o = "ok" THEN logExecution(history, th[x].task, "failure")
                      ELSE history
    /\ th' = [ th EXCEPT ![x].pc = "markfailed" ]
    /\ UNCHANGED <<store, maxConcurrentTasks, proc, cron, gate, now, launches>>
    /\ Silent

\* lines 141-144, updateTaskState lines 134-135: the UPDATE of the failed
\* write settles; updateTaskState goes on to await findTaskById
ExecMarkFailed(x) ==
    /\ th[x].pc = "markfailed"
    /\ \E o \in ReadOutcomes :
        /\ Fault(o)
        /\ store' = IF o = "fail" THEN store
                    ELSE Written(th[x].task,
                             updateTaskState(store[th[x].task], "failed",
                                 [ failure_reason        |-> th[x].cause,
                                   execution_duration_ms |->
                                       Number(th[x].end - th[x].start) ]))
        /\ th' = [ th EXCEPT ![x] =
                     IF o = "ok"
                     THEN [ @ EXCEPT !.pc = "failedread", !.marked = FALSE ]
                     ELSE Settle(@, "DatabaseOperationError") ]
    /\ UNCHANGED <<history, maxConcurrentTasks, proc, cron, gate, now, launches>>
    /\ Silent

\* updateTaskState line 136, lines 144-146: the SELECT after the failed write
\* settles; TaskExecutionError is thrown, or the error of the SELECT
ExecMarkFailedRead(x) ==
    /\ th[x].pc = "failedread"
    /\ \E o \in ReadOutcomes :
        /\ Fault(o)
        /\ th' = [ th EXCEPT ![x] =
                     IF o = "ok" THEN Settle(@, "TaskExecutionError")
                     ELSE Settle(@, "DatabaseOperationError") ]
    /\ UNCHANGED <<store, history, maxConcurrentTasks, proc, cron, gate, now, launches>>
    /\ Silent

ExecStep(x) ==
    \/ ExecFind(x) \/ ExecMark(x) \/ ExecMarkRead(x) \/ ExecWork(x)
    \/ ExecComplete(x) \/ ExecCompleteRead(x)
    \/ ExecLogSuccess(x) \/ ExecWebhook(x) \/ ExecRequeue(x) \/ ExecRequeueRead(x)
    \/ ExecCatchLog(x) \/ ExecMarkFailed(x) \/ ExecMarkFailedRead(x)

\* ------------------------------------------- TaskController.executeTask
\* POST /run-job/:id : the controller calls taskService.executeTask directly;
\* the request is the first chain that is free
ApiCall(a, taskId) ==
    /\ FirstFree(ApiOrder, a, th)
    /\ launches < MaxRequests
    /\ launches' = launches + 1
    /\ th' = [ th EXCEPT ![a] = StartRun(Idle, taskId) ]
    /\ UNCHANGED <<store, history, maxConcurrentTasks, proc, cron, gate, now, dbFaults>>
    /\ Silent

\* the controller answers: res.status(200) or next(error)
ApiReturn(a) ==
    /\ th[a].pc = "fin"
    /\ th' = [ th EXCEPT ![a] = Idle ]
    /\ Answer(a, th[a].task, th[a].result)
    /\ UNCHANGED <<store, history, maxConcurrentTasks, proc, cron, gate, now, launches, dbFaults>>

\* ------------------------------------------------------- SchedulerService
Frames == Ticks \cup Manuals        \* the chains that go through the gate

\* taskQueue.push(task), for each task of `tasks` in turn
Push(queue, tasks) ==
    queue \o [ i \in 1..Len(tasks) |-> [task |-> tasks[i], n |-> arrivals + i] ]

\* (variant: taskQueue.pop() in place of shift())
ShiftFromBack(queue) ==
    [ entry |-> queue[Len(queue)], rest |-> SubSeq(queue, 1, Len(queue) - 1) ]

\* taskQueue.shift(): the entry taken and what is left
Shift(queue) == [ entry |-> Head(queue), rest |-> Tail(queue) ]

\* _executeTaskAsync(task) for the entry taken from taskQueue by chain x:
\* the counter goes up and executeTask is awaited (lines 87-91)
ShiftAndExecute(x, rec, count) ==
    /\ th' = [ th EXCEPT ![x] = StartRun(rec, Shift(taskQueue).entry.task) ]
    /\ lastShifted' = Shift(taskQueue).entry.n
    /\ taskQueue' = Shift(taskQueue).rest
    /\ activeTasksCount' = count + 1
    /\ UNCHANGED arrivals

\* (variant: the decrement sits at the end of the try block, so a run that
\* threw keeps its slot)
ReleaseInTryOnly(x, rec, count) ==
    LET after == IF rec.result = "ok" THEN count - 1 ELSE count
    IN IF Len(taskQueue) > 0
       THEN ShiftAndExecute(x, rec, after)
       ELSE /\ activeTasksCount' = after
            /\ th' = [ th EXCEPT ![x] = [ Idle EXCEPT !.pc = "ret", !.list = rec.list,
                                                       !.thrown = rec.thrown ] ]
            /\ UNCHANGED <<taskQueue, arrivals, lastShifted>>

\* (variant: the counter is decremented in catch and again in finally)
ReleaseInCatchAndFinally(x, rec, count) ==
    LET after == IF rec.result = "ok" THEN count - 1 ELSE count - 2
    IN IF Len(taskQueue) > 0
       THEN ShiftAndExecute(x, rec, after)
       ELSE /\ activeTasksCount' = after
            /\ th' = [ th EXCEPT ![x] = [ Idle EXCEPT !.pc = "ret", !.list = rec.list,
                                                       !.thrown = rec.thrown ] ]
            /\ UNCHANGED <<taskQueue, arrivals, lastShifted>>

\* (variant: the finally block releases the slot and leaves the queue to the
\* next tick)
ReleaseWithoutDrain(x, rec, count) ==
    /\ activeTasksCount' = count - 1
    /\ th' = [ th EXCEPT ![x] = [ Idle EXCEPT !.pc = "ret", !.list = rec.list,
                                               !.thrown = rec.thrown ] ]
    /\ UNCHANGED <<taskQueue, arrivals, lastShifted>>

\* the finally block of _executeTaskAsync (lines 97-105), entered with the
\* counter at `count`
FinallyBlock(x, rec, count) ==
    IF Len(taskQueue) > 0
    THEN ShiftAndExecute(x, rec, count - 1)
    ELSE /\ activeTasksCount' = count - 1
         /\ th' = [ th EXCEPT ![x] = [ Idle EXCEPT !.pc = "ret", !.list = rec.list,
                                                    !.thrown = rec.thrown ] ]
         /\ UNCHANGED <<taskQueue, arrivals, lastShifted>>

\* (variant: the catch block throws the error again after logging it)
FrameFinallyRethrows(x) ==
    /\ th[x].pc = "fin"
    /\ FinallyBlock(x, [ th[x] EXCEPT !.thrown = IF th[x].result # "ok"
                                                 THEN th[x].result ELSE @ ],
                    activeTasksCount)
    /\ UNCHANGED <<store, history, maxConcurrentTasks, proc, cron, now, launches, dbFaults>>
    /\ Silent

\* executeTask has settled in chain x: catch (the error is logged and
\* dropped) and finally
FrameFinally(x) ==
    /\ th[x].pc = "fin"
    /\ FinallyBlock(x, th[x], activeTasksCount)
    /\ UNCHANGED <<store, history, maxConcurrentTasks, proc, cron, now, launches, dbFaults>>
    /\ Silent

\* _processTaskQueue (lines 111-119), up to its first await, then the end of
\* _checkAndExecutePendingTasks
ProcessTaskQueue(k, rec) ==
    IF Len(taskQueue) > 0 /\ activeTasksCount < maxConcurrentTasks
    THEN ShiftAndExecute(k, rec, activeTasksCount)
    ELSE /\ th' = [ th EXCEPT ![k] = Idle ]
         /\ UNCHANGED gate

\* (variant: at capacity the due tasks are skipped instead of queued)
SubmitLoopDrops(k, rec, tasksToExecute) ==
    IF tasksToExecute = << >>
    THEN ProcessTaskQueue(k, rec)
    ELSE IF activeTasksCount >= maxConcurrentTasks
    THEN /\ th' = [ th EXCEPT ![k] = Idle ]
         /\ UNCHANGED gate
    ELSE /\ activeTasksCount' = activeTasksCount + 1
         /\ th' = [ th EXCEPT ![k] =
                      StartRun([rec EXCEPT !.list = Tail(tasksToExecute)],
                               Head(tasksToExecute)) ]
         /\ UNCHANGED <<taskQueue, arrivals, lastShifted>>

\* the for loop of _checkAndExecutePendingTasks (lines 66-76) over the due
\* tasks not yet visited, up to its next await
SubmitLoop(k, rec, tasksToExecute) ==
    IF tasksToExecute = << >>
    THEN ProcessTaskQueue(k, rec)
    ELSE IF activeTasksCount >= maxConcurrentTasks
    THEN \* nothing frees a slot inside this segment: every task left is queued
         /\ taskQueue' = Push(taskQueue, tasksToExecute)
         /\ arrivals' = arrivals + Len(tasksToExecute)
         /\ th' = [ th EXCEPT ![k] = Idle ]
         /\ UNCHANGED <<activeTasksCount, lastShifted>>
    ELSE /\ activeTasksCount' = activeTasksCount + 1
         /\ th' = [ th EXCEPT ![k] =
                      StartRun([rec EXCEPT !.list = Tail(tasksToExecute)],
                               Head(tasksToExecute)) ]
         /\ UNCHANGED <<taskQueue, arrivals, lastShifted>>

\* the orders in which the SELECT may return a set of rows
Orders(S) ==
    { seq \in [1..Cardinality(S) -> S] :
        \A i, j \in 1..Cardinality(S) : i # j => seq[i] # seq[j] }

\* the cron job fires, whether or not an earlier cycle is still under way
\* (lines 29-31): _checkAndExecutePendingTasks awaits the due-task query.
\* The new cycle is the first chain that is free.
TickFire(k) ==
    /\ schedulerJob = "scheduled"
    /\ FirstFree(TickOrder, k, th)
    /\ launches < MaxLaunches
    /\ launches' = launches + 1
    /\ th' = [ th EXCEPT ![k] = [ Idle EXCEPT !.pc = "query" ] ]
    /\ UNCHANGED <<store, history, maxConcurrentTasks, proc, cron, gate, now, dbFaults>>
    /\ Silent

\* (variant: a failed due-task query takes the cron job down)
TickQueryStopsLoop(k) ==
    /\ th[k].pc = "query"
    /\ \E o \in ReadOutcomes :
        /\ Fault(o)
        /\ IF o = "fail"
           THEN /\ th' = [ th EXCEPT ![k] = Idle ]
                /\ Answer(k, NoTask, "Error in scheduler cycle")
                /\ schedulerJob' = "destroyed" /\ isRunning' = FALSE
                /\ UNCHANGED gate
           ELSE /\ \E tasksToExecute \in Orders(findScheduledTasksReady) :
                     IF tasksToExecute = << >>
                     THEN \* lines 59-61: no task is due, the cycle returns
                          /\ th' = [ th EXCEPT ![k] = Idle ]
                          /\ UNCHANGED gate
                     ELSE SubmitLoop(k, Idle, tasksToExecute)
                /\ Silent
                /\ UNCHANGED cron
    /\ UNCHANGED <<store, history, maxConcurrentTasks, proc, now, launches>>

\* the due-task query settles (lines 57-73): with no row the cycle returns at
\* once, taskQueue is not looked at; a store error is caught (line 78)
TickQuery(k) ==
    /\ th[k].pc = "query"
    /\ \E o \in ReadOutcomes :
        /\ Fault(o)
        /\ IF o = "fail"
           THEN /\ th' = [ th EXCEPT ![k] = Idle ]
                /\ Answer(k, NoTask, "Error in scheduler cycle")
                /\ UNCHANGED gate
           ELSE /\ \E tasksToExecute \in Orders(findScheduledTasksReady) :
                     IF tasksToExecute = << >>
                     THEN \* lines 59-61: no task is due, the cycle returns
                          /\ th' = [ th EXCEPT ![k] = Idle ]
                          /\ UNCHANGED gate
                     ELSE SubmitLoop(k, Idle, tasksToExecute)
                /\ Silent
    /\ UNCHANGED <<store, history, maxConcurrentTasks, proc, cron, now, launches>>

\* `await this._executeTaskAsync(task)` settles in the tick: the for loop, or
\* the while loop of _processTaskQueue, goes on
TickResume(k) ==
    /\ th[k].pc = "ret"
    /\ SubmitLoop(k, Idle, th[k].list)
    /\ UNCHANGED <<store, history, maxConcurrentTasks, proc, cron, now, launches, dbFaults>>
    /\ Silent

\* start() (lines 24-37): a second call while running only warns
start ==
    /\ ~isRunning
    /\ schedulerJob' = "scheduled"
    /\ isRunning' = TRUE
    /\ UNCHANGED <<store, history, maxConcurrentTasks, proc, gate, now, th, launches, dbFaults>>
    /\ Silent

\* (variant: stop() clears the flag and leaves the cron job scheduled)
stopLeavesJob ==
    /\ schedulerJob # "null"
    /\ schedulerJob' = schedulerJob
    /\ isRunning' = FALSE
    /\ UNCHANGED <<store, history, maxConcurrentTasks, proc, gate, now, th, launches, dbFaults>>
    /\ Silent

\* stop() (lines 42-49): the cron job is stopped and destroyed; nothing else
\* of the service is touched
stop ==
    /\ schedulerJob # "null"
    /\ schedulerJob' = "destroyed"
    /\ isRunning' = FALSE
    /\ UNCHANGED <<store, history, maxConcurrentTasks, proc, gate, now, th, launches, dbFaults>>
    /\ Silent

\* The process stops (crash or kill) and is started again: every call chain
\* is gone and the module is loaded anew, so the service is in the state its
\* constructor leaves (lines 12-18); startServer (server.js 96-118) opens the
\* database pool and listens, it reads and writes no task.  task_queue and
\* execution_history are in the database and stay as they are.
restart ==
    /\ restarts < MaxRestarts
    /\ restarts' = restarts + 1
    /\ lostQueue' = { taskQueue[i].task : i \in 1..Len(taskQueue) }
    /\ interrupted' = { t \in DOMAIN store : store[t].execution_state = "processing" }
    /\ schedulerJob' = "null"
    /\ isRunning' = FALSE
    /\ activeTasksCount' = 0
    /\ taskQueue' = << >>
    /\ arrivals' = 0
    /\ lastShifted' = 0
    /\ th' = [ x \in Threads |-> Idle ]
    /\ launches' = 0
    /\ UNCHANGED <<store, history, maxConcurrentTasks, now, dbFaults>>
    /\ Silent

\* (variant: at capacity a manual request is queued like a scheduled one)
ManualCallQueues(m, taskId) ==
    /\ FirstFree(ManualOrder, m, th)
    /\ launches < MaxLaunches
    /\ launches' = launches + 1
    /\ IF activeTasksCount >= maxConcurrentTasks
       THEN /\ taskQueue' = Push(taskQueue, <<taskId>>)
            /\ arrivals' = arrivals + 1
            /\ Answer(m, taskId, "queued")
            /\ UNCHANGED <<th, activeTasksCount, lastShifted>>
       ELSE /\ th' = [ th EXCEPT ![m] = [ Idle EXCEPT !.task = taskId,
                                                      !.pc = "lookup" ] ]
            /\ Silent
            /\ UNCHANGED gate
    /\ UNCHANGED <<store, history, maxConcurrentTasks, proc, cron, now, dbFaults>>

\* manualExecuteTask(taskId) is called (lines 124-130): the capacity check,
\* then `await findTaskById`; the call is the first chain that is free
ManualCall(m, taskId) ==
    /\ FirstFree(ManualOrder, m, th)
    /\ launches < MaxLaunches
    /\ launches' = launches + 1
    /\ IF activeTasksCount >= maxConcurrentTasks
       THEN /\ Answer(m, taskId, "ConcurrencyLimitError")
            /\ UNCHANGED th
       ELSE /\ th' = [ th EXCEPT ![m] = [ Idle EXCEPT !.task = taskId,
                                                      !.pc = "lookup" ] ]
            /\ Silent
    /\ UNCHANGED <<store, history, maxConcurrentTasks, proc, cron, gate, now, dbFaults>>

\* findTaskById settles in manualExecuteTask and _executeTaskAsync is entered
\* (lines 129-131, 87-105).  For an unknown id the task is null: reading
\* task.task_label throws inside try and again inside catch, and the finally
\* block runs in the same segment.
ManualFind(m) ==
    /\ th[m].pc = "lookup"
    /\ \E o \in ReadOutcomes :
        /\ Fault(o)
        /\ IF o = "fail"
           THEN /\ th' = [ th EXCEPT ![m] = Idle ]
                /\ Answer(m, th[m].task, "DatabaseOperationError")
                /\ UNCHANGED gate
           ELSE IF th[m].task \in DOMAIN store
           THEN /\ activeTasksCount' = activeTasksCount + 1
                /\ th' = [ th EXCEPT ![m] = StartRun(Idle, th[m].task) ]
                /\ Silent
                /\ UNCHANGED <<taskQueue, arrivals, lastShifted>>
           ELSE /\ FinallyBlock(m, [ Idle EXCEPT !.thrown = "TypeError" ],
                                activeTasksCount + 1)
                /\ Silent
    /\ UNCHANGED <<store, history, maxConcurrentTasks, proc, cron, now, launches>>

\* manualExecuteTask settles: its caller gets the value or the error
ManualReturn(m) ==
    /\ th[m].pc = "ret"
    /\ th' = [ th EXCEPT ![m] = Idle ]
    /\ Answer(m, NoTask, IF th[m].thrown # "none" THEN th[m].thrown ELSE "ok")
    /\ UNCHANGED <<store, history, maxConcurrentTasks, proc, cron, gate, now, launches, dbFaults>>

NextSched ==
    \/ \E k \in Ticks : TickFire(k) \/ TickQuery(k) \/ TickResume(k)
    \/ \E m \in Manuals : \E taskId \in ManualTargets : ManualCall(m, taskId)
    \/ \E m \in Manuals : ManualFind(m) \/ ManualReturn(m)
    \/ \E x \in Frames : ExecStep(x) \/ FrameFinally(x)

\* the scheduler: ticks and manualExecuteTask calls
Spec == Init /\ [][NextSched]_vars

NextTick ==
    \/ \E k \in Ticks : TickFire(k) \/ TickQuery(k) \/ TickResume(k)
    \/ \E k \in Ticks : ExecStep(k) \/ FrameFinally(k)

\* the cron cycles on an idle gate
SpecTick == InitTick /\ [][NextTick]_vars

NextDelete ==
    \/ \E k \in Ticks : TickFire(k) \/ TickQuery(k) \/ TickResume(k)
    \/ \E k \in Ticks : ExecStep(k) \/ FrameFinally(k)
    \/ \E d \in Dels : \E taskId \in DeleteTargets : DeleteCall(d, taskId)
    \/ \E d \in Dels : DeleteFind(d) \/ DeleteRow(d)

\* the cron cycles while DELETE /tasks/:id requests arrive
SpecDelete == Init /\ [][NextDelete]_vars

\* the constructed service: start() has not been called yet; one task is
\* due and there are two slots
InitLoop == InitAt(1, 2, {"t1"}, FALSE)

NextLoop ==
    \/ start
    \/ stop
    \/ \E k \in Ticks : TickFire(k) \/ TickQuery(k) \/ TickResume(k)
    \/ \E k \in Ticks : ExecStep(k) \/ FrameFinally(k)

\* chain x goes on from the await it is suspended at: the awaited store
\* operation, work unit or delivery settles
Continue(x) ==
    \/ ExecStep(x) \/ FrameFinally(x)
    \/ x \in Ticks /\ (TickQuery(x) \/ TickResume(x))
    \/ x \in Manuals /\ (ManualFind(x) \/ ManualReturn(x))

\* the life cycle of the cron job around its cycles; every awaited
\* operation settles
SpecLoop == InitLoop /\ [][NextLoop]_vars /\ \A k \in Ticks : WF_vars(Continue(k))

\* the scheduler, every awaited operation settling
SpecLive == Init /\ [][NextSched]_vars /\ \A x \in Frames : WF_vars(Continue(x))

\* task_queue is empty; the scheduler has not been started
InitCreate ==
    /\ store = [ t \in {} |-> NULL ]
    /\ history = [ t \in Tasks |-> [success |-> 0, failure |-> 0] ]
    /\ maxConcurrentTasks = constructor(1)
    /\ schedulerJob = "null"
    /\ isRunning = FALSE
    /\ activeTasksCount = 0
    /\ taskQueue = << >>
    /\ now = 0
    /\ th = [ x \in Threads |-> Idle ]
    /\ launches = 0
    /\ dbFaults = 0
    /\ arrivals = 0
    /\ lastShifted = 0
    /\ outcome = NoOutcome
    /\ restarts = 0
    /\ lostQueue = {}
    /\ interrupted = {}

NextCreate ==
    \/ AdvanceClock
    \/ \E p \in Posts : \E id \in Tasks : \E schedulePattern \in SchedulePatterns :
          PostTask(p, id, schedulePattern)
    \/ \E p \in Posts : PostInsert(p)
    \/ \E p \in Posts : PostSelect(p)

\* task creation only
SpecCreate == InitCreate /\ [][NextCreate]_vars

NextMix ==
    \/ \E k \in Ticks : TickFire(k) \/ TickQuery(k) \/ TickResume(k)
    \/ \E k \in Ticks : ExecStep(k) \/ FrameFinally(k)
    \/ \E taskId \in ApiTargets : ApiCall("a1", taskId)
    \/ ExecStep("a1") \/ ApiReturn("a1")

\* the server: the cron job, its cycles, and POST /run-job requests, one at
\* a time
SpecMix == InitOne /\ [][NextMix]_vars

NextExec ==
    \/ \E a \in Apis : \E taskId \in ApiTargets : ApiCall(a, taskId)
    \/ \E a \in Apis : ExecStep(a) \/ ApiReturn(a)

\* concurrent controller requests only, within one minute
SpecExec == InitExec /\ [][NextExec]_vars

\* ids manualExecuteTask is asked to run in the first life of the process
RestartTargets == {"t1", "t3"}

\* One manualExecuteTask chain and the cron job; the process is stopped and
\* started again at any moment, after which start() is called again and the
\* cron job goes on firing.
NextRestart ==
    \/ \E k \in Ticks : TickFire(k) \/ TickQuery(k) \/ TickResume(k)
    \/ restarts = 0 /\ \E taskId \in RestartTargets : ManualCall("m1", taskId)
    \/ ManualFind("m1") \/ ManualReturn("m1")
    \/ \E x \in Ticks \cup {"m1"} : ExecStep(x) \/ FrameFinally(x)
    \/ restart
    \/ start

\* the scheduler across a restart of the process: every awaited operation
\* settles, start() is called after the restart and the cron job fires
SpecRestart ==
    /\ InitOne /\ [][NextRestart]_vars
    /\ \A x \in Ticks \cup {"m1"} : WF_vars(Continue(x))
    /\ WF_vars(start)
    /\ \A k \in Ticks : WF_vars(TickFire(k))

\* The scheduler observed from the moment a manualExecuteTask('t3') call has
\* entered _executeTaskAsync and holds the only slot (the state ManualCall and
\* ManualFind lead to from Init); launches counts the operations begun since.
InitBusy ==
    /\ store = [ t \in Tasks |->
                   IF t \in {"t1", "t2"} THEN createTask(EveryMinute, 0)
                   ELSE createTask(NoPattern, 0) ]
    /\ history = [ t \in Tasks |-> [success |-> 0, failure |-> 0] ]
    /\ maxConcurrentTasks = constructor(1)
    /\ schedulerJob = "scheduled"
    /\ isRunning = TRUE
    /\ activeTasksCount = 1
    /\ taskQueue = << >>
    /\ now = 1
    /\ th = [ x \in Threads |-> IF x = "m1" THEN StartRun(Idle, "t3") ELSE Idle ]
    /\ launches = 0
    /\ dbFaults = 0
    /\ arrivals = 0
    /\ lastShifted = 0
    /\ outcome = NoOutcome
    /\ restarts = 0
    /\ lostQueue = {}
    /\ interrupted = {}

NextBusy ==
    \/ \E k \in Ticks : TickFire(k) \/ TickQuery(k) \/ TickResume(k)
    \/ \E x \in Ticks \cup {"m1"} : ExecStep(x) \/ FrameFinally(x)
    \/ ManualReturn("m1")

\* the cron job firing while a manual run holds the gate
SpecBusy == InitBusy /\ [][NextBusy]_vars

\* ================================================================== claims
\* a run holds the task from its processing write to the first completed or
\* failed write it makes (or to its end, when it makes neither): `marked` is
\* set by the UPDATE of the processing write and cleared by the UPDATE of
\* the completed write and of the failed write
Holding(x) == th[x].marked

\* chain x is inside _executeTaskAsync, between the increment and the finally
InFrame(x) ==
    th[x].pc \in {"find", "mark", "markread", "work", "complete", "completeread",
                  "logsuccess", "webhook", "requeue", "requeueread", "catchlog",
                  "markfailed", "failedread", "fin"}

\* C1: in every reachable state activeTasksCount is at most
\* maxConcurrentTasks.
ActiveWithinLimit == activeTasksCount <= maxConcurrentTasks

\* C2: for every task id at most one executeTask run is between its
\* processing write and the completed or failed write that follows it.
SingleFlight ==
    \A x, y \in Threads :
        (x # y /\ Holding(x) /\ Holding(y)) => th[x].task # th[y].task

\* C3: tasks leave taskQueue in the order they entered it: no entry still
\* waiting arrived before an entry that has already been started, and the
\* entries wait in arrival order.
QueueIsFifo ==
    \A i \in 1..Len(taskQueue) :
        /\ taskQueue[i].n > lastShifted
        /\ \A j \in 1..Len(taskQueue) : i < j => taskQueue[i].n < taskQueue[j].n

\* C3 witness: two tasks were queued, the first has been started and the
\* second still waits.
FirstQueuedStartedFirst ==
    arrivals >= 2 /\ lastShifted = 1 /\ Len(taskQueue) = 1

\* C4: a tick that finds k > maxConcurrentTasks due tasks on an idle gate has
\* maxConcurrentTasks of them in flight at once and the other
\* k - maxConcurrentTasks in taskQueue.
TickFillsGateAndQueuesRest ==
    [][ \A k \in Ticks :
          ( /\ th[k].pc = "query" /\ th'[k].pc # "query"
            /\ dbFaults' = dbFaults
            /\ activeTasksCount = 0
            /\ Cardinality(findScheduledTasksReady) > maxConcurrentTasks )
          => ( /\ activeTasksCount' = maxConcurrentTasks
               /\ Len(taskQueue') =
                    Cardinality(findScheduledTasksReady) - maxConcurrentTasks ) ]_vars

\* C5: manualExecuteTask called while activeTasksCount >= maxConcurrentTasks
\* fails with ConcurrencyLimitError and changes neither the store, the
\* counter nor the queue.
ManualAtCapacityRejected ==
    [][ ( /\ launches' = launches + 1
          /\ \A k \in Ticks : th'[k] = th[k]
          /\ activeTasksCount >= maxConcurrentTasks )
        => ( /\ outcome'.what = "ConcurrencyLimitError"
             /\ UNCHANGED <<store, history, activeTasksCount, taskQueue, th>> ) ]_vars

\* C5 witness: a manual call has just been refused at capacity.
ManualRefused ==
    outcome.what = "ConcurrencyLimitError" /\ activeTasksCount >= maxConcurrentTasks

\* C6: when the work unit of a run of a non-recurring task read with attempts
\* n fails, the failed write of the run leaves the task failed, with attempts
\* n+1, failure_reason set and next_execution_at null.
FailedRunBookkeeping ==
    [][ \A x \in Threads :
          ( /\ th[x].pc = "markfailed" /\ th[x].cause \in WorkErrors
            /\ ~th[x].recurring
            /\ th'[x].pc = "failedread" )
          => LET row == store'[th[x].task]
             IN /\ row.execution_state = "failed"
                /\ row.execution_attempts = th[x].attempts + 1
                /\ row.failure_reason # NoReason
                /\ row.next_execution_at = NULL ]_vars

\* C7: when a run of a recurring task succeeds, the requeue leaves the task
\* queued with next_execution_at strictly after the finish time of the run.
RequeueSchedulesAfterFinish ==
    [][ \A x \in Threads :
          ( /\ th[x].pc = "requeue"
            /\ th'[x].pc = "requeueread" )
          => LET row == store'[th[x].task]
             IN /\ store[th[x].task].execution_state = "completed"
                /\ row.execution_state = "queued"
                /\ IsDate(row.next_execution_at)
                /\ After(row.next_execution_at, th[x].end) ]_vars

\* C8: every increment of activeTasksCount is matched by exactly one
\* decrement on every exit path: the counter is the number of chains inside
\* _executeTaskAsync, and 0 when none is.
EveryAdmissionReleasedOnce ==
    activeTasksCount = Cardinality({ x \in Frames : InFrame(x) })

\* C8 witness: a run has failed, its chain has left _executeTaskAsync and the
\* counter is back to 0.
FailedRunReleased ==
    /\ activeTasksCount = 0
    /\ \E x \in Frames : th[x].pc = "ret"
    /\ \E t \in Tasks : store[t].execution_state = "failed"

\* C9: activeTasksCount is never negative.
ActiveNeverNegative == activeTasksCount >= 0

\* C9 witness: manualExecuteTask for an unknown id went through the increment,
\* the throwing catch and the finally block.
UnknownTaskReleased ==
    \E m \in Manuals :
        th[m].pc = "ret" /\ th[m].thrown = "TypeError" /\ activeTasksCount = 0

\* C10: executeTask on a task whose stored state is processing fails with
\* InvalidTaskStateError and leaves the row and the history as they were.
ProcessingTaskRejected ==
    [][ \A x \in Threads :
          ( /\ th[x].pc = "find" /\ th'[x] # th[x]
            /\ dbFaults' = dbFaults
            /\ th[x].task \in Tasks
            /\ store[th[x].task].execution_state = "processing" )
          => ( /\ th'[x].pc = "fin"
               /\ th'[x].result = "InvalidTaskStateError"
               /\ store' = store /\ history' = history ) ]_vars

\* C10 witness: a run has just been refused because its task is processing.
RunRefusedWhileProcessing ==
    \E x \in Frames :
        /\ th[x].pc = "fin" /\ th[x].result = "InvalidTaskStateError"
        /\ store[th[x].task].execution_state = "processing"

\* C11: a run requested through POST /run-job/:id is counted in
\* activeTasksCount while it runs (it went through the concurrency gate).
ControllerRunIsCounted ==
    Cardinality({ a \in Apis : th[a].pc \notin {"idle", "fin"} }) <= activeTasksCount

\* C12: a tick never waits for the work unit of a task it admitted while due
\* tasks of the same tick are still to be handed to the gate.
TickNeverWaitsOnWorkUnit ==
    \A k \in Ticks : th[k].pc = "work" => th[k].list = << >>

\* C13: a notification that failed after a successful work unit never
\* changes the stored state of the task: the run whose delivery failed goes on
\* as a success (to the requeue of a recurring task, else to its successful
\* return), it appends no failure entry to the history, it does not write
\* the task failed, and it does not end with TaskExecutionError.
WebhookFailureAbsorbed ==
    [][ \A x \in Threads :
          /\ ( th[x].pc = "webhook" /\ th'[x] # th[x] )
             => ( /\ store' = store /\ history' = history
                  /\ IF th[x].recurring THEN th'[x].pc = "requeue"
                     ELSE th'[x].pc = "fin" /\ th'[x].result = "ok" )
          /\ ( th[x].cause \in DeliveryErrors /\ th'[x] # th[x] )
             => ( /\ history'[th[x].task].failure = history[th[x].task].failure
                  /\ store'[th[x].task] # store[th[x].task]
                     => store'[th[x].task].execution_state # "failed"
                  /\ th'[x].result # "TaskExecutionError" ) ]_vars

\* C14: when the run started by manualExecuteTask ends with
\* TaskExecutionError, that error leaves _executeTaskAsync towards the caller
\* of manualExecuteTask.
ManualFailureReraised ==
    [][ \A m \in Manuals :
          ( /\ th[m].pc = "fin" /\ th[m].result = "TaskExecutionError"
            /\ dbFaults = 0             \* it is the work unit that failed
            /\ th'[m].pc = "ret" )
          => th'[m].thrown = "TaskExecutionError" ]_vars

\* C15: an error of executeTask in a run started by a tick does not leave
\* _executeTaskAsync: no error is pending in the tick afterwards, the due tasks
\* not yet visited are kept, and the tick goes on to submit them (the next
\* one is started, or all of them are queued at capacity).
TickAbsorbsRunErrors ==
    [][ \A k \in Ticks :
          /\ ( th[k].pc = "fin" /\ th[k].result # "ok" /\ th'[k] # th[k] )
             => ( /\ th'[k].thrown = "none"
                  /\ th'[k].list = th[k].list
                  /\ th'[k].pc \in {"ret", "find"} )
          /\ ( th[k].pc = "ret" /\ th[k].list # << >> /\ th'[k] # th[k] )
             => \/ /\ th'[k].pc = "find"
                   /\ th'[k].task = Head(th[k].list)
                   /\ th'[k].list = Tail(th[k].list)
                \/ /\ th'[k].pc = "idle"
                   /\ Len(taskQueue') = Len(taskQueue) + Len(th[k].list) ]_vars

\* C15 witness: in its first tick the scheduler has started the next due task
\* after a run of the same tick failed.
TickWentOnAfterFailure ==
    \E k \in Ticks :
        /\ launches = 1 /\ th[k].pc = "find"
        /\ \E t \in DOMAIN store :
              t # th[k].task /\ store[t].execution_state = "failed"

\* C16: when the due-task query of a tick fails, the tick ends there with the
\* error logged, activeTasksCount and taskQueue are unchanged, and the cron
\* job is as it was, so that a scheduler that was running still is.
DueQueryFailureCaught ==
    [][ \A k \in Ticks :
          ( th[k].pc = "query" /\ th'[k] # th[k] /\ dbFaults' = dbFaults + 1 )
          => ( /\ th'[k] = Idle
               /\ outcome'.what = "Error in scheduler cycle"
               /\ activeTasksCount' = activeTasksCount
               /\ taskQueue' = taskQueue
               /\ store' = store
               /\ schedulerJob' = schedulerJob /\ isRunning' = isRunning ) ]_vars

\* C16 witness: the due-task query has just failed in a tick of a running
\* scheduler, which can fire again.
TickSurvivedQueryFailure ==
    /\ outcome.what = "Error in scheduler cycle"
    /\ isRunning /\ schedulerJob = "scheduled"
    /\ \A k \in Ticks : th[k].pc = "idle"
    /\ launches < MaxLaunches

\* the elements of a sequence
Range(seq) == { seq[i] : i \in 1..Len(seq) }

\* the tasks of the last n entries of a queue
LastTasks(queue, n) == { queue[i].task : i \in (Len(queue) - n + 1)..Len(queue) }

\* C17: no due task found by a tick is dropped.  When the loop of the tick
\* reaches a due task it starts it in that step or appends it to taskQueue;
\* the due tasks still to be visited are eventually all visited; and
\* taskQueue, whose entries only leave it to be started, is eventually
\* drained, every awaited operation settling.
NoDueTaskDropped ==
    /\ [][ \A k \in Ticks :
             /\ ( /\ th[k].pc = "query" /\ th'[k] # th[k] /\ dbFaults' = dbFaults
                  /\ findScheduledTasksReady # {} )
                => LET due == findScheduledTasksReady
                   IN \/ /\ th'[k].pc = "find" /\ th'[k].task \in due
                         /\ Range(th'[k].list) = due \ {th'[k].task}
                         /\ Len(th'[k].list) = Cardinality(due) - 1
                      \/ /\ th'[k].pc = "idle"
                         /\ Len(taskQueue') = Len(taskQueue) + Cardinality(due)
                         /\ LastTasks(taskQueue', Cardinality(due)) = due
             /\ ( th[k].pc = "ret" /\ th[k].list # << >> /\ th'[k] # th[k] )
                => \/ /\ th'[k].pc = "find"
                      /\ th'[k].task = Head(th[k].list)
                      /\ th'[k].list = Tail(th[k].list)
                   \/ /\ th'[k].pc = "idle"
                      /\ taskQueue' = Push(taskQueue, th[k].list) ]_vars
    /\ \A k \in Ticks : (th[k].list # << >>) ~> (th[k].list = << >>)
    /\ (taskQueue # << >>) ~> (taskQueue = << >>)

\* C17 witness: the two due tasks the tick had to queue have both been taken
\* from taskQueue, the second one being run by the chain that freed the slot.
QueuedTasksAllStarted ==
    /\ arrivals = 2 /\ lastShifted = 2 /\ taskQueue = << >>
    /\ \E m \in Manuals : InFrame(m) /\ th[m].task \in {"t1", "t2"}

\* C18: a tick begins only while the scheduler is running, so none begins
\* after stop(); stop() touches no chain, row, counter or queue; and a run in
\* flight while the scheduler is stopped goes on: unless a store operation
\* fails it reaches its completed or failed write, and the chain leaves
\* _executeTaskAsync with the counter back to 0.
StopHaltsTicksOnly ==
    /\ [][ (launches' = launches + 1) => isRunning ]_vars
    /\ [][ (isRunning /\ ~isRunning')
           => UNCHANGED <<th, store, history, activeTasksCount, taskQueue>> ]_vars
    /\ \A k \in Ticks :
          (~isRunning /\ th[k].pc = "work" /\ dbFaults = 0)
          ~> \/ dbFaults > 0
             \/ /\ th[k].pc = "completeread"
                /\ store[th[k].task].execution_state = "completed"
             \/ /\ th[k].pc = "failedread"
                /\ store[th[k].task].execution_state = "failed"
    /\ \A k \in Ticks :
          (~isRunning /\ InFrame(k)) ~> (~InFrame(k) /\ activeTasksCount = 0)

\* C18 witness: stop() has been called while the work unit of a run is in
\* flight.
StoppedWithRunInFlight ==
    /\ schedulerJob = "destroyed" /\ ~isRunning
    /\ \E k \in Ticks : th[k].pc = "work" /\ activeTasksCount = 1

\* C19: no step sets a non-recurring task whose stored state is completed or
\* failed back to queued.
NonRecurringNeverRequeued ==
    [][ \A t \in Tasks :
          ( /\ ~store[t].is_recurring
            /\ store[t].execution_state \in {"completed", "failed"} )
          => store'[t].execution_state # "queued" ]_vars

\* C19 witness: a non-recurring task has been run a second time after it had
\* completed or failed, and is completed or failed again.
NonRecurringRunTwice ==
    \E t \in Tasks :
        /\ ~store[t].is_recurring
        /\ store[t].execution_attempts = 2
        /\ store[t].execution_state \in {"completed", "failed"}
        /\ history[t].success + history[t].failure = 2
        /\ \A x \in Threads : th[x].pc = "idle"

\* C20: no step lowers the stored execution_attempts of a task.
AttemptsNeverDecrease ==
    [][ \A t \in Tasks :
          store'[t].execution_attempts >= store[t].execution_attempts ]_vars

\* the decimal numeral of n < 100
Decimal(n) ==
    IF n < 10 THEN <<Digits[n + 1]>>
    ELSE <<Digits[(n \div 10) + 1], Digits[(n % 10) + 1]>>

\* C21: a task created with the pattern "*/N * * * *" is stored as recurring
\* with next_execution_at equal to the instant of creation plus N minutes.
\* (Violated: the minutes are added on the local wall clock, and a creation
\* before the end of summer time whose N minutes cross it is stored DstShift
\* minutes later.)
CreateEveryNMinutes ==
    [][ \A id \in Tasks : \A n \in 0..20 :
          ( /\ id \notin DOMAIN store /\ id \in DOMAIN store'
            /\ store'[id].schedule_pattern = Every(Decimal(n)) )
          => ( /\ store'[id].is_recurring
               /\ \E p \in Posts :
                     /\ th[p].pc = "insert" /\ th[p].task = id
                     /\ store'[id].next_execution_at = Date(th[p].start + n) ) ]_vars

\* C22: for a recurring task completed is transient: the requeue that
\* follows the completed write leaves the task queued with the
\* next_execution_at computed at that moment, and between the completed write
\* and the queued write of a run no other run of the task gets past its
\* guards.
RecurringCompletedIsTransient ==
    [][ \A x \in Threads :
          /\ ( th[x].pc = "requeue" /\ th'[x].pc = "requeueread" )
             => LET row == store'[th[x].task]
                IN /\ row.execution_state = "queued"
                   /\ row.next_execution_at = th[x].nextExecution
          /\ \A y \in Threads \ {x} :
               ( /\ th[x].pc \in {"completeread", "logsuccess", "webhook", "requeue"}
                 /\ th[x].recurring
                 /\ th[y].pc = "find" /\ th[y].task = th[x].task
                 /\ th'[y] # th[y] )
               => th'[y].pc # "mark" ]_vars

\* the edges of the state machine of a task
Edges(row) ==
    { <<"queued", "processing">>, <<"processing", "completed">>,
      <<"processing", "failed">> }
    \cup (IF row.is_recurring THEN { <<"completed", "queued">> } ELSE {})

\* C23: every change of a stored execution_state follows an edge of the
\* state machine: queued -> processing, processing -> completed,
\* processing -> failed, and completed -> queued for a recurring task.
StateChangesFollowEdges ==
    [][ \A t \in Tasks :
          store'[t].execution_state # store[t].execution_state
          => <<store[t].execution_state, store'[t].execution_state>>
                \in Edges(store[t]) ]_vars

\* C24: the work unit of a run starts only after the run's processing write
\* has settled without error: the UPDATE has left the row processing with
\* attempts + 1 and last_executed_at as written, and the row has been read
\* back; when the write fails the run goes to its catch block, and nothing
\* but that write starts a work unit.
WorkOnlyAfterProcessingWrite ==
    [][ \A x \in Threads :
          /\ ( th'[x].pc = "work" /\ th[x].pc # "work" )
             => ( /\ th[x].pc = "markread"
                  /\ th[x].marked
                  /\ dbFaults' = dbFaults )
          /\ ( th'[x].pc = "markread" /\ th[x].pc # "markread" )
             => ( /\ th[x].pc = "mark"
                  /\ dbFaults' = dbFaults
                  /\ th'[x].marked
                  /\ store'[th[x].task].execution_state = "processing"
                  /\ store'[th[x].task].execution_attempts = th[x].attempts + 1
                  /\ store'[th[x].task].last_executed_at = Date(th[x].start) )
          /\ ( /\ th[x].pc \in {"mark", "markread"}
               /\ dbFaults' # dbFaults /\ th'[x] # th[x] )
             => ( th'[x].pc = "catchlog" /\ th'[x].cause = DbError ) ]_vars

\* C24 witness: the processing write of a run has failed, the row is
\* untouched and the run is in its catch block, the work unit not started.
ProcessingWriteFailed ==
    \E x \in Threads :
        /\ th[x].pc = "catchlog" /\ th[x].cause = DbError
        /\ store[th[x].task].execution_state = "queued"
        /\ store[th[x].task].execution_attempts = 0

\* C25: after a successful work unit the steps of a run come in this order:
\* the completed write with execution_duration_ms, then the success entry
\* of the history (appended unless the store refuses the insert), then the
\* delivery, made with the record read back after the completed write, and
\* only then the requeue write of a recurring task.
SuccessStepsInOrder ==
    [][ \A x \in Threads :
          /\ ( th[x].pc = "complete" /\ th'[x].pc # "complete" /\ dbFaults' = dbFaults )
             => ( /\ th'[x].pc = "completeread"
                  /\ store'[th[x].task].execution_state = "completed"
                  /\ store'[th[x].task].execution_duration_ms
                        = Number(th[x].end - th[x].start)
                  /\ history' = history )
          /\ ( th'[x].pc = "logsuccess" /\ th[x].pc # "logsuccess" )
             => ( /\ th[x].pc = "completeread"
                  /\ th'[x].completedTask = store[th[x].task]
                  /\ store' = store /\ history' = history )
          /\ ( th'[x].pc = "webhook" /\ th[x].pc # "webhook" )
             => ( /\ th[x].pc = "logsuccess"
                  /\ store' = store
                  /\ dbFaults' = dbFaults
                     => history'[th[x].task].success
                           = history[th[x].task].success + 1 )
          /\ ( th[x].pc = "webhook" /\ th'[x] # th[x] )
             => ( /\ th[x].completedTask.execution_state = "completed"
                  /\ th[x].completedTask.execution_duration_ms
                        = Number(th[x].end - th[x].start)
                  /\ store' = store /\ history' = history )
          /\ ( th'[x].pc = "requeue" /\ th[x].pc # "requeue" )
             => th[x].pc = "webhook"
          /\ ( /\ th[x].task \in Tasks
               /\ th'[x] # th[x]
               /\ store'[th[x].task].execution_state = "queued"
               /\ store[th[x].task].execution_state # "queued" )
             => th[x].pc = "requeue" ]_vars

\* C26: no automatic action (the loop of a tick, the drain of taskQueue)
\* starts a run of a task whose stored state is failed.
NoAutomaticRerunOfFailed ==
    [][ \A k \in Frames :
          ( /\ th[k].pc \in {"query", "ret", "fin"}
            /\ th'[k].pc = "find" )
          => store[th'[k].task].execution_state # "failed" ]_vars

\* C27: every task a tick submits (starts, or appends to taskQueue) is, when
\* it is submitted, a stored task with is_recurring true, next_execution_at
\* non-null and not after now, and state queued or completed; and the tasks
\* a due-task query hands to the loop are exactly those.
TickSubmitsOnlyDueTasks ==
    [][ \A k \in Ticks :
          /\ ( th[k].pc \in {"query", "ret"} /\ th'[k].pc = "find" )
             => th'[k].task \in findScheduledTasksReady
          /\ ( th[k].pc \in {"query", "ret"} /\ Len(taskQueue') > Len(taskQueue) )
             => \A i \in (Len(taskQueue) + 1)..Len(taskQueue') :
                   taskQueue'[i].task \in findScheduledTasksReady
          /\ ( th[k].pc = "query" /\ th'[k] # th[k] /\ dbFaults' = dbFaults )
             => ( IF th'[k].pc = "find"
                  THEN {th'[k].task} \cup Range(th'[k].list)
                  ELSE LastTasks(taskQueue', Len(taskQueue') - Len(taskQueue)) )
                = findScheduledTasksReady ]_vars

\* C28: the gate is work-conserving: between the steps of the event loop,
\* whenever taskQueue is non-empty every slot is taken
\* (activeTasksCount >= maxConcurrentTasks).
WorkConserving ==
    Len(taskQueue) > 0 => activeTasksCount >= maxConcurrentTasks

\* a run has ended, its finally block has taken the head of the queue, and
\* entries are still waiting
QueueDrainedWithEntriesLeft ==
    /\ lastShifted > 0
    /\ Len(taskQueue) > 0

\* C29: a manualExecuteTask call returns as soon as the run of its own task
\* has finished: the only run its chain starts and awaits is the run of the
\* task it was asked for, never one of a task taken from taskQueue.
ManualReturnsAfterOwnRun ==
    [][ \A m \in Manuals :
          ( th[m].pc # "find" /\ th'[m].pc = "find" )
          => ( th[m].pc = "lookup" /\ th'[m].task = th[m].task ) ]_vars

\* C30: whenever a task's stored state is processing, or the task is not
\* recurring, its stored next_execution_at is null.
NoNextExecutionWhileProcessing ==
    \A t \in DOMAIN store :
        ( store[t].execution_state = "processing" \/ ~store[t].is_recurring )
        => store[t].next_execution_at = NULL

\* C31: for every schedule pattern createTask accepts, the next run instant
\* computed by _calculateNextExecution is strictly later than the instant of
\* the call: a task created with a pattern is stored with a
\* next_execution_at after the instant of its creation.
NextExecutionStrictlyLater ==
    [][ \A p \in Posts :
          ( /\ th[p].pc = "insert" /\ th'[p].pc = "created"
            /\ th[p].taskData.schedule_pattern # NoPattern )
          => LET next == _calculateNextExecution(th[p].taskData.schedule_pattern,
                                                 th[p].start)
                 row  == store'[th[p].task]
             IN /\ IsDate(next) /\ After(next, th[p].start)
                /\ IsDate(row.next_execution_at)
                /\ After(row.next_execution_at, th[p].start) ]_vars

\* C32: a run requested for a task id that is not in the store, through
\* executeTask or through manualExecuteTask, signals TaskNotFoundError,
\* writes nothing to the store and leaves activeTasksCount as it was.  (The
\* step is the one in which findTaskById, not hit by a store fault, answers
\* that there is no such task.)
UnknownTaskSignalsNotFound ==
    [][ \A x \in Threads :
          ( /\ th[x].pc \in {"lookup", "find"}
            /\ th[x].task \notin Tasks
            /\ th'[x] # th[x]
            /\ dbFaults' = dbFaults )
          => ( /\ IF th[x].pc = "lookup"
                  THEN th'[x].thrown = "TaskNotFoundError"
                  ELSE th'[x].result = "TaskNotFoundError"
               /\ store' = store
               /\ activeTasksCount' = activeTasksCount ) ]_vars

\* C33: after each run the stored last duration and last error are those of
\* that run: the final write of a successful run leaves its duration and no
\* error, the final write of a failed run leaves its duration and its error
\* message, whatever the previous run had left.
RunOverwritesDurationAndError ==
    [][ \A x \in Threads :
          /\ ( th[x].pc = "complete" /\ th'[x].pc = "completeread" )
             => ( /\ store'[th[x].task].execution_duration_ms
                        = Number(th[x].end - th[x].start)
                  /\ store'[th[x].task].failure_reason = NoReason )
          /\ ( th[x].pc = "markfailed" /\ th'[x].pc = "failedread" )
             => ( /\ store'[th[x].task].execution_duration_ms
                        = Number(th[x].end - th[x].start)
                  /\ store'[th[x].task].failure_reason =
                        IF th[x].cause = "" THEN NoReason ELSE th[x].cause ) ]_vars

\* C34: a task left in state processing by a crash in the middle of a run
\* does not stay processing forever: after the restart it is eventually
\* marked failed with an 'interrupted' error.
InterruptedRunReconciled ==
    \A t \in Tasks :
        (t \in interrupted)
        ~> ( /\ store[t].execution_state = "failed"
             /\ store[t].failure_reason = "interrupted" )

\* C35: after a restart of the process (the service is as constructed:
\* activeTasksCount = 0, taskQueue empty) every recurring task that was
\* waiting in taskQueue when the process stopped, and whose stored
\* next_execution_at has come, is found again by a later tick and a run of it
\* is started.
LostQueueEntriesRunAgain ==
    \A t \in Tasks :
        ( /\ restarts > 0 /\ schedulerJob = "null"
          /\ t \in lostQueue
          /\ store[t].is_recurring
          /\ store[t].next_execution_at # NULL
          /\ NotAfter(store[t].next_execution_at, now) )
        ~> ( \E k \in Ticks : InFrame(k) /\ th[k].task = t )

\* C36: a task id is never present more than once in taskQueue, and a task
\* that is due once is started at most once for that due instant: a chain of
\* the scheduler starts a run of a task only while its stored
\* next_execution_at has come and no run has been made since that instant.
NoDuplicateSubmission ==
    [][ /\ \A i, j \in 1..Len(taskQueue') :
              i # j => taskQueue'[i].task # taskQueue'[j].task
        /\ \A x \in Frames :
              ( /\ th[x].pc \in {"query", "ret", "fin"}
                /\ th'[x].pc = "find" )
              => LET row == store[th'[x].task]
                 IN /\ row.next_execution_at # NULL
                    /\ NotAfter(row.next_execution_at, now)
                    /\ ( row.last_executed_at = NULL
                         \/ After(row.next_execution_at, row.last_executed_at.v) ) ]_vars

\* C37: each executeTask run that passes the not-found and processing guards
\* appends exactly one entry to the execution history, success or failure
\* and never both, and the entry agrees with the final state the run writes:
\* the step that logs appends the entry; success is logged by a run that
\* has written completed, and such a run does not go on to the catch block,
\* where failure is logged: the only write it still makes is the one to
\* queued; the run that has logged failure writes failed.
OneHistoryEntryPerRun ==
    [][ \A x \in Threads :
          /\ ( th[x].pc = "logsuccess" /\ th'[x] # th[x] )
             => /\ history'[th[x].task].success = history[th[x].task].success + 1
                /\ history'[th[x].task].failure = history[th[x].task].failure
          /\ ( th[x].pc = "catchlog" /\ th'[x] # th[x] )
             => /\ history'[th[x].task].failure = history[th[x].task].failure + 1
                /\ history'[th[x].task].success = history[th[x].task].success
          /\ ( th'[x].pc = "logsuccess" /\ th[x].pc # "logsuccess" )
             => th[x].pc = "completeread"
          /\ ( th[x].pc \in {"webhook", "requeue", "requeueread"} /\ th'[x] # th[x] )
             => /\ th'[x].pc # "catchlog"
                /\ store'[th[x].task] # store[th[x].task]
                   => store'[th[x].task].execution_state = "queued"
          /\ ( th[x].pc = "markfailed" /\ th'[x] # th[x] )
             => store'[th[x].task].execution_state = "failed" ]_vars

\* chain x is inside a run of task t, between its processing write and the
\* completed or failed write that follows it
RunInProgress(x, t) ==
    /\ th[x].task = t
    /\ Holding(x)

\* C38: provided the process does not crash, the work unit terminates and
\* the store accepts writes (no store operation has failed), every run that
\* has set a task to processing eventually writes completed or failed for
\* it, and no task stays in processing once its run has ended.
ProcessingAlwaysResolved ==
    /\ \A k \in Ticks :
          ( th[k].pc = "work" /\ dbFaults = 0 )
          ~> ( \/ dbFaults > 0
               \/ /\ th[k].pc = "completeread"
                  /\ store[th[k].task].execution_state = "completed"
               \/ /\ th[k].pc = "failedread"
                  /\ store[th[k].task].execution_state = "failed" )
    /\ []( dbFaults = 0
           => \A t \in Tasks :
                 store[t].execution_state = "processing"
                 => \E x \in Threads : RunInProgress(x, t) )

\* C38 witness: no store operation has failed and a run that had set its
\* task to processing has ended with the task written failed
RunEndedFailedWritten ==
    \E k \in Ticks :
        /\ dbFaults = 0
        /\ th[k].pc = "fin"
        /\ th[k].result = "TaskExecutionError"
        /\ store[th[k].task].execution_state = "failed"
        /\ store[th[k].task].execution_attempts > 0

====
